---- MODULE Spec2Model ----
(***************************************************************************)
(* Model of the LinearRegression repository: the statistics primitives of  *)
(* stats.h (mean, shift, inner_product) and the regression engine of       *)
(* linreg.h (fit, ci_slope, coeff_of_determination, t_quantile).           *)
(*                                                                         *)
(* The floating-point type T is modelled by exact extended reals: a value  *)
(* is NaN, +/-infinity, or a finite number a + b*sqrt(r) with a, b, r      *)
(* rational.  Division by zero and the square root of a negative number    *)
(* give the IEEE-754 special values; rounding is not modelled.             *)
(***************************************************************************)
EXTENDS Integers, Sequences, FiniteSets, TLC

(* ------------------------------ bounds -------------------------------- *)

\* longest input sequence the caller passes
MaxLen == 3

\* the sample values are the three integers MaxVal - 2 .. MaxVal
MaxVal == 2

\* width in bits of std::size_t in the model (64 on the build's platform)
SizeBits == 16

(* ----------------------------- rationals ------------------------------ *)

Abs(i) == IF i < 0 THEN -i ELSE i

Sgn(i) == IF i < 0 THEN -1 ELSE IF i > 0 THEN 1 ELSE 0

RECURSIVE GCD(_, _)
GCD(a, b) == IF b = 0 THEN a ELSE GCD(b, a % b)

\* the rational n/d (d # 0) in lowest terms with a positive denominator
Rat(n, d) ==
    LET g == GCD(Abs(n), Abs(d))
        s == IF d < 0 THEN -1 ELSE 1
    IN  << (s * n) \div g, (s * d) \div g >>

RatInt(i) == << i, 1 >>

\* the sum over the least common denominator
RatAdd(p, q) ==
    IF p[2] = q[2]
    THEN Rat(p[1] + q[1], p[2])
    ELSE LET g == GCD(p[2], q[2])
         IN  Rat(p[1] * (q[2] \div g) + q[1] * (p[2] \div g), (p[2] \div g) * q[2])

RatNeg(p) == << -p[1], p[2] >>

RatSub(p, q) == RatAdd(p, RatNeg(q))

\* the product, the common factors cancelled before multiplying
RatMul(p, q) ==
    LET g1 == GCD(Abs(p[1]), q[2])
        g2 == GCD(Abs(q[1]), p[2])
    IN  << (p[1] \div g1) * (q[1] \div g2), (p[2] \div g2) * (q[2] \div g1) >>

\* q # 0
RatDiv(p, q) == RatMul(p, Rat(q[2], q[1]))

RatSign(p) == Sgn(p[1])

(* ------------------- the floating-point type T ------------------------ *)

NaN == [k |-> "nan", a |-> RatInt(0), b |-> RatInt(0), r |-> RatInt(1)]

Inf(s) == [k |-> "inf", a |-> RatInt(s), b |-> RatInt(0), r |-> RatInt(1)]

\* an operation outside the fragment of arithmetic the model supports
\* (two different radicals combined); never produced by the program
Unsupported == [k |-> "unsupported", a |-> RatInt(0), b |-> RatInt(0), r |-> RatInt(1)]

\* the finite number a + b*sqrt(r), r >= 0
Fin(a, b, r) ==
    IF RatSign(b) = 0 \/ RatSign(r) = 0
    THEN [k |-> "fin", a |-> a, b |-> RatInt(0), r |-> RatInt(1)]
    ELSE [k |-> "fin", a |-> a, b |-> b, r |-> r]

Num(p) == Fin(p, RatInt(0), RatInt(1))

Int2T(i) == Num(RatInt(i))

Zero == Int2T(0)

One == Int2T(1)

IsNaN(u) == u.k = "nan"

IsFin(u) == u.k = "fin"

IsRational(u) == u.k = "fin" /\ RatSign(u.b) = 0

\* sign of a finite or infinite value: -1, 0 or 1
Sign(u) ==
    IF u.k = "inf" THEN RatSign(u.a)
    ELSE LET sa == RatSign(u.a)
             sb == RatSign(u.b)
             a2 == RatMul(u.a, u.a)
             b2r == RatMul(u.b, RatMul(u.b, u.r))
             d == RatSign(RatSub(a2, b2r))
         IN  IF sb = 0 THEN sa
             ELSE IF sa = 0 \/ sa = sb THEN sb
             ELSE IF d > 0 THEN sa
             ELSE IF d < 0 THEN sb
             ELSE 0

Neg(u) ==
    IF u.k = "fin" THEN Fin(RatNeg(u.a), RatNeg(u.b), u.r)
    ELSE IF u.k = "inf" THEN Inf(-RatSign(u.a))
    ELSE u

Add(u, v) ==
    IF u.k = "unsupported" \/ v.k = "unsupported" THEN Unsupported
    ELSE IF IsNaN(u) \/ IsNaN(v) THEN NaN
    ELSE IF u.k = "inf" /\ v.k = "inf" THEN (IF Sign(u) = Sign(v) THEN u ELSE NaN)
    ELSE IF u.k = "inf" THEN u
    ELSE IF v.k = "inf" THEN v
    ELSE IF RatSign(u.b) = 0 THEN Fin(RatAdd(u.a, v.a), v.b, v.r)
    ELSE IF RatSign(v.b) = 0 THEN Fin(RatAdd(u.a, v.a), u.b, u.r)
    ELSE IF u.r = v.r THEN Fin(RatAdd(u.a, v.a), RatAdd(u.b, v.b), u.r)
    ELSE Unsupported

Sub(u, v) == Add(u, Neg(v))

Mul(u, v) ==
    IF u.k = "unsupported" \/ v.k = "unsupported" THEN Unsupported
    ELSE IF IsNaN(u) \/ IsNaN(v) THEN NaN
    ELSE IF u.k = "inf" \/ v.k = "inf"
         THEN (IF Sign(u) * Sign(v) = 0 THEN NaN ELSE Inf(Sign(u) * Sign(v)))
    ELSE IF RatSign(u.b) # 0 /\ RatSign(v.b) # 0 /\ u.r # v.r THEN Unsupported
    ELSE LET r == IF RatSign(u.b) # 0 THEN u.r ELSE v.r
         IN  Fin(RatAdd(RatMul(u.a, v.a), RatMul(u.b, RatMul(v.b, r))),
                 RatAdd(RatMul(u.a, v.b), RatMul(u.b, v.a)),
                 r)

\* IEEE division: x/0 is an infinity for x # 0 and NaN for x = 0
Div(u, v) ==
    IF u.k = "unsupported" \/ v.k = "unsupported" THEN Unsupported
    ELSE IF IsNaN(u) \/ IsNaN(v) THEN NaN
    ELSE IF v.k = "inf" THEN (IF u.k = "inf" THEN NaN ELSE Zero)
    ELSE IF Sign(v) = 0 THEN (IF Sign(u) = 0 THEN NaN ELSE Inf(Sign(u)))
    ELSE IF u.k = "inf" THEN Inf(Sign(u) * Sign(v))
    ELSE IF RatSign(v.b) = 0
         THEN Fin(RatDiv(u.a, v.a), RatDiv(u.b, v.a), u.r)
    ELSE IF RatSign(v.a) = 0
         \* 1 / (b*sqrt(r)) = sqrt(r) / (b*r)
         THEN Mul(u, Fin(RatInt(0), RatDiv(RatInt(1), RatMul(v.b, v.r)), v.r))
    ELSE Unsupported

\* std::sqrt: NaN for a negative argument
Sqrt(u) ==
    IF u.k = "unsupported" THEN Unsupported
    ELSE IF IsNaN(u) THEN NaN
    ELSE IF u.k = "inf" THEN (IF Sign(u) > 0 THEN u ELSE NaN)
    ELSE IF RatSign(u.b) # 0 THEN Unsupported
    ELSE IF RatSign(u.a) < 0 THEN NaN
    ELSE Fin(RatInt(0), RatInt(1), u.a)

\* the comparisons of T: every comparison with NaN is false
Eq(u, v) ==
    /\ ~IsNaN(u) /\ ~IsNaN(v)
    /\ IF u.k = "inf" \/ v.k = "inf"
       THEN u.k = v.k /\ Sign(u) = Sign(v)
       ELSE Sign(Sub(u, v)) = 0

Less(u, v) ==
    /\ ~IsNaN(u) /\ ~IsNaN(v)
    /\ ~Eq(u, v)
    /\ IF u.k = "inf" THEN Sign(u) < 0
       ELSE IF v.k = "inf" THEN Sign(v) > 0
       ELSE Sign(Sub(v, u)) > 0

Leq(u, v) == Less(u, v) \/ Eq(u, v)

(* ------------------------ outcomes of a call -------------------------- *)

Ok(v) == [st |-> "ok", v |-> v]

Throw(e) == [st |-> e, v |-> << >>]

NotCalled == [st |-> "not_called", v |-> << >>]

(* ------------------------------ stats.h ------------------------------- *)

\* std::accumulate(first, last, init): left fold with +
RECURSIVE accumulate(_, _)
accumulate(data, init) ==
    IF data = << >> THEN init
    ELSE accumulate(Tail(data), Add(init, Head(data)))

\* T mean(std::span<const T> data)
mean(data) ==
    IF Len(data) = 0
    THEN Throw("invalid_argument")
    ELSE Ok(Div(accumulate(data, Zero), Int2T(Len(data))))

\* shift without its subtraction loop: the copy is returned as it is
shift_uncentered(xs) ==
    IF Len(xs) = 0 THEN Throw("invalid_argument") ELSE Ok([i \in 1..Len(xs) |-> xs[i]])

\* shift: the loop that subtracts the mean m from each element of the copy
shift_subtract(data, m) ==
    IF m.st # "ok" THEN m
    ELSE Ok([i \in 1..Len(data) |-> Sub(data[i], m.v)])

\* std::vector<T> shift(std::span<const T> x): works on a copy of x
shift(xs) ==
    IF Len(xs) = 0
    THEN Throw("invalid_argument")
    ELSE shift_subtract(xs, mean(xs))

\* the products x[i] * y[i] that std::transform_reduce sums up
Products(xs, ys) == [i \in 1..Len(xs) |-> Mul(xs[i], ys[i])]

\* inner_product without the lower limit on the size
inner_product_lenient(xs, ys) ==
    IF Len(xs) # Len(ys)
    THEN Throw("invalid_argument")
    ELSE Ok(accumulate(Products(xs, ys), Zero))

\* inner_product whose lambda multiplies its first argument by itself
inner_product_first_only(xs, ys) ==
    IF Len(xs) # Len(ys) \/ Len(xs) < 2
    THEN Throw("invalid_argument")
    ELSE Ok(accumulate(Products(xs, xs), Zero))

\* T inner_product(std::span<const T> x, std::span<const T> y)
inner_product(xs, ys) ==
    IF Len(xs) # Len(ys) \/ Len(xs) < 2
    THEN Throw("invalid_argument")
    ELSE Ok(accumulate(Products(xs, ys), Zero))

(* ------------------------------ linreg.h ------------------------------ *)

\* struct FitResult
FitResult(beta0, beta1, rho, sxx, syy, sxy, sse, n) ==
    [beta0 |-> beta0, beta1 |-> beta1, rho |-> rho, sxx |-> sxx,
     syy |-> syy, sxy |-> sxy, sse |-> sse, n |-> n]

\* FitResult<T>{}: every member value-initialised
EmptyFit == FitResult(Zero, Zero, Zero, Zero, Zero, Zero, Zero, 0)

\* the lambda of fit with the intercept left out of the prediction
SquaredError_no_intercept(beta0, beta1, xi, yi) ==
    LET diff == Sub(yi, Mul(beta1, xi))
    IN  Mul(diff, diff)

\* the squared residual of one data point, the lambda in fit
SquaredError(beta0, beta1, xi, yi) ==
    LET yi_pred == Add(beta0, Mul(beta1, xi))
        diff == Sub(yi, yi_pred)
    IN  Mul(diff, diff)

\* the input validation of fit: sizes differ or fewer than 3 points
InvalidSample_min2(xs, ys) == Len(xs) # Len(ys) \/ Len(xs) < 2

InvalidSample(xs, ys) == Len(xs) # Len(ys) \/ Len(xs) < 3

\* what fit returns when sxx == 0: `return {}`, not the fitResult it has
\* begun to fill
ZeroVarianceResult_partial(n, sxx) ==
    FitResult(Zero, Zero, Zero, sxx, Zero, Zero, Zero, n)

ZeroVarianceResult(n, sxx) == EmptyFit

\* fit with the squared errors summed over the centred data x0, y0
fit_result_centred(xs, ys, sxx, syy, sxy, beta1, beta0) ==
    Ok(FitResult(beta0,
                 beta1,
                 Div(sxy, Sqrt(Mul(sxx, syy))),
                 sxx,
                 syy,
                 sxy,
                 accumulate([i \in 1..Len(xs) |->
                                SquaredError(beta0, beta1, shift(xs).v[i], shift(ys).v[i])],
                            Zero),
                 Len(xs)))

\* fit, last part: rho, the sum of squared errors over the uncentred data,
\* and the populated result
fit_result(xs, ys, sxx, syy, sxy, beta1, beta0) ==
    Ok(FitResult(beta0,
                 beta1,
                 Div(sxy, Sqrt(Mul(sxx, syy))),
                 sxx,
                 syy,
                 sxy,
                 accumulate([i \in 1..Len(xs) |->
                                SquaredError(beta0, beta1, xs[i], ys[i])],
                            Zero),
                 Len(xs)))

\* fit with the line forced through the origin: beta0 = 0
fit_intercept_origin(xs, ys, sxx, syy, sxy, beta1, my, mx) ==
    IF my.st # "ok" THEN my
    ELSE IF mx.st # "ok" THEN mx
    ELSE fit_result(xs, ys, sxx, syy, sxy, beta1, Zero)

\* fit: beta0 = mean(y) - beta1 * mean(x), with the means my, mx of the
\* uncentred data
fit_intercept(xs, ys, sxx, syy, sxy, beta1, my, mx) ==
    IF my.st # "ok" THEN my
    ELSE IF mx.st # "ok" THEN mx
    ELSE fit_result(xs, ys, sxx, syy, sxy, beta1, Sub(my.v, Mul(beta1, mx.v)))

\* fit: beta1 = sxy / sxx, from the outcomes syy, sxy of inner_product
fit_slope(xs, ys, sxx, syy, sxy) ==
    IF syy.st # "ok" THEN syy
    ELSE IF sxy.st # "ok" THEN sxy
    ELSE fit_intercept(xs, ys, sxx, syy.v, sxy.v, Div(sxy.v, sxx), mean(ys), mean(xs))

\* fit: the check of sxx (the outcome of inner_product(x0, x0)), then syy
\* and sxy
fit_sums(xs, ys, x0, y0, sxx) ==
    IF sxx.st # "ok" THEN sxx
    ELSE IF Eq(sxx.v, Zero) THEN Ok(ZeroVarianceResult(Len(xs), sxx.v))
    ELSE fit_slope(xs, ys, sxx.v, inner_product(y0, y0), inner_product(x0, y0))

\* fit: x0, y0 are the outcomes of shift(x), shift(y)
fit_centered(xs, ys, x0, y0) ==
    IF x0.st # "ok" THEN x0
    ELSE IF y0.st # "ok" THEN y0
    ELSE fit_sums(xs, ys, x0.v, y0.v, inner_product(x0.v, x0.v))

\* fit without the validation of its input at the top
fit_unchecked(xs, ys) == fit_centered(xs, ys, shift(xs), shift(ys))

\* FitResult<T> fit(std::span<const T> x, std::span<const T> y); an
\* exception of a primitive propagates to the caller
fit(xs, ys) ==
    IF InvalidSample(xs, ys) THEN Ok(EmptyFit)
    ELSE fit_centered(xs, ys, shift(xs), shift(ys))

\* fitResult.n - 2 in a signed integer type: no wrap-around
SizeSub_signed(n, m) == n - m

\* fitResult.n - 2 in std::size_t: unsigned, modulo 2^SizeBits
SizeSub(n, m) == (n - m) % (2 ^ SizeBits)

\* critical values of Student's t distribution, in thousandths:
\* TTable[dof][i] for dof = 1..10 and p = 0.95, 0.975, 0.995
TTable ==
    << << 6314, 12706, 63657 >>, << 2920, 4303, 9925 >>,
       << 2353, 3182, 5841 >>,   << 2132, 2776, 4604 >>,
       << 2015, 2571, 4032 >>,   << 1943, 2447, 3707 >>,
       << 1895, 2365, 3499 >>,   << 1860, 2306, 3355 >>,
       << 1833, 2262, 3250 >>,   << 1812, 2228, 3169 >> >>

\* the limit of the above for dof -> infinity (standard normal)
NormalTable == << 1645, 1960, 2576 >>

\* the significance levels the caller uses: 0.10, 0.05, 0.01
Alphas == { << 1, 10 >>, << 1, 20 >>, << 1, 100 >> }

\* column of the tables for the probability p
PColumn(p) ==
    IF p = << 19, 20 >> THEN 1
    ELSE IF p = << 39, 40 >> THEN 2
    ELSE 3

\* t_quantile that ignores p and always answers for p = 0.975
t_quantile_fixed(p, m) ==
    IF ~IsRational(m) \/ Sign(m) <= 0 THEN Throw("domain_error")
    ELSE LET dof == m.a[1]
             q == IF dof <= Len(TTable) THEN TTable[dof][2] ELSE NormalTable[2]
         IN  Ok(Num(Rat(q, 1000)))

\* T t_quantile(T p, T m): boost::math::quantile of students_t_distribution(m);
\* the distribution's constructor raises a domain error unless m > 0
t_quantile(p, m) ==
    IF ~IsRational(m) \/ ~IsRational(p) THEN Throw("domain_error")
    ELSE IF Sign(m) <= 0 THEN Throw("domain_error")
    ELSE LET dof == m.a[1]
             col == PColumn(p.a)
             q == IF dof <= Len(TTable) THEN TTable[dof][col] ELSE NormalTable[col]
         IN  Ok(Num(Rat(q, 1000)))

\* ci_slope: the degrees of freedom, converted to T
ci_dof(fitResult) == Int2T(SizeSub(fitResult.n, 2))

\* ci_slope: the argument of std::sqrt, scal * (1 - beta1^2 / scal) / dof
ci_radicand(beta1, scal, dof) ==
    Div(Mul(scal, Sub(One, Div(Mul(beta1, beta1), scal))), dof)

\* ci_slope: sb = sqrt(scal * (1 - beta1^2 / scal) / dof)
ci_sb(beta1, scal, dof) == Sqrt(ci_radicand(beta1, scal, dof))

\* ci_slope: k = quantile * sb and the pair (beta1 - k, beta1 + k); an
\* exception of t_quantile propagates to the caller
ci_bounds(beta1, sb, quantile) ==
    IF quantile.st # "ok" THEN quantile
    ELSE Ok(<< Sub(beta1, Mul(quantile.v, sb)), Add(beta1, Mul(quantile.v, sb)) >>)

\* std::pair<T, T> ci_slope(const FitResult<T>& fitResult, const T alpha)
ci_slope(fitResult, alpha) ==
    ci_bounds(fitResult.beta1,
              ci_sb(fitResult.beta1, Div(fitResult.syy, fitResult.sxx), ci_dof(fitResult)),
              t_quantile(Sub(One, Mul(Num(Rat(1, 2)), alpha)), ci_dof(fitResult)))

\* T coeff_of_determination(const FitResult<T>& fitResult)
coeff_of_determination(fitResult) == Ok(Mul(fitResult.rho, fitResult.rho))

(* ------------------------------ the caller ---------------------------- *)

VARIABLES
    x,          \* the caller's independent values
    y,          \* the caller's dependent values
    call,       \* the operation called last
    arg,        \* its argument besides x, y and fitResult
    ret,        \* what that call returned or threw
    fitResult   \* outcome of the last call of fit

vars == << x, y, call, arg, ret, fitResult >>

Vals == { Int2T(i) : i \in (MaxVal - 2)..MaxVal }

RECURSIVE SeqsOfLen(_)
SeqsOfLen(n) ==
    IF n = 0 THEN { << >> }
    ELSE { Append(s, v) : s \in SeqsOfLen(n - 1), v \in Vals }

Samples == UNION { SeqsOfLen(n) : n \in 0..MaxLen }

Init ==
    /\ x \in Samples
    /\ y \in Samples
    /\ call = "none"
    /\ arg = "none"
    /\ ret = NotCalled
    /\ fitResult = NotCalled

\* fit that centres the caller's sequences in place instead of copies
Fit_in_place ==
    /\ call \in { "none", "fit" }
    /\ call' = "fit"
    /\ arg' = "none"
    /\ ret' = fit(x, y)
    /\ fitResult' = ret'
    /\ x' = (IF shift(x).st = "ok" THEN shift(x).v ELSE x)
    /\ y' = (IF shift(y).st = "ok" THEN shift(y).v ELSE y)

\* auto res = LinearRegression::fit(x, y): the caller fits its sample, once
\* or again, before it asks for the statistics of the result
Fit ==
    /\ call \in { "none", "fit" }
    /\ call' = "fit"
    /\ arg' = "none"
    /\ ret' = fit(x, y)
    /\ fitResult' = ret'
    /\ UNCHANGED << x, y >>

\* auto ci = LinearRegression::ci_slope(res, alpha)
CiSlope ==
    /\ fitResult.st = "ok"
    /\ \E alpha \in Alphas :
        /\ call' = "ci_slope"
        /\ arg' = alpha
        /\ ret' = ci_slope(fitResult.v, Num(alpha))
    /\ UNCHANGED << x, y, fitResult >>

\* LinearRegression::coeff_of_determination(res)
CoeffOfDetermination ==
    /\ fitResult.st = "ok"
    /\ call' = "coeff_of_determination"
    /\ arg' = "none"
    /\ ret' = coeff_of_determination(fitResult.v)
    /\ UNCHANGED << x, y, fitResult >>

Next == Fit \/ CiSlope \/ CoeffOfDetermination

Spec == Init /\ [][Next]_vars

\* Stats::mean(x)
Mean ==
    /\ call' = "mean"
    /\ arg' = "x"
    /\ ret' = mean(x)
    /\ UNCHANGED << x, y, fitResult >>

\* Stats::shift(x)
Shift ==
    /\ call' = "shift"
    /\ arg' = "x"
    /\ ret' = shift(x)
    /\ UNCHANGED << x, y, fitResult >>

\* Stats::inner_product(x, y) and Stats::inner_product(y, x)
InnerProduct ==
    /\ \E order \in { "xy", "yx" } :
        /\ call' = "inner_product"
        /\ arg' = order
        /\ ret' = IF order = "xy" THEN inner_product(x, y) ELSE inner_product(y, x)
    /\ UNCHANGED << x, y, fitResult >>

NextStats == Mean \/ Shift \/ InnerProduct

SpecStats == Init /\ [][NextStats]_vars

\* test case 2 of main: x = 1, ..., 10
ScenarioX == [i \in 1..10 |-> Int2T(i)]

\* test case 2 of main: the y values, in tenths
ScenarioYTenths == << 31, 50, 72, 91, 100, 132, 155, 165, 190, 213 >>

\* test case 2 of main: y = 3.1, 5.0, ..., 21.3
ScenarioY == [i \in 1..10 |-> Num(Rat(ScenarioYTenths[i], 10))]

\* the first n elements of q
Prefix(q, n) == SubSeq(q, 1, n)

\* the caller holds the sample of test case 2 or the leading part of it
InitScenario ==
    /\ x \in { Prefix(ScenarioX, n) : n \in 0..Len(ScenarioX) }
    /\ y \in { Prefix(ScenarioY, n) : n \in 0..Len(ScenarioY) }
    /\ call = "none"
    /\ arg = "none"
    /\ ret = NotCalled
    /\ fitResult = NotCalled

SpecScenario == InitScenario /\ [][Next]_vars

\* struct FitResult is an aggregate with public members: the results a
\* caller can hand to ci_slope without fit, among them the sentinel
Aggregates ==
    { FitResult(Zero, beta1, Zero, sxx, syy, Zero, Zero, n) :
        beta1 \in Vals, sxx \in Vals, syy \in Vals, n \in 0..(MaxLen + 1) }
    \cup { EmptyFit }

\* the caller holds a FitResult it has filled in itself
InitAggregate ==
    /\ x = << >>
    /\ y = << >>
    /\ call = "none"
    /\ arg = "none"
    /\ ret = NotCalled
    /\ fitResult \in { Ok(r) : r \in Aggregates }

NextAggregate == CiSlope \/ CoeffOfDetermination

SpecAggregate == InitAggregate /\ [][NextAggregate]_vars

\* the caller fits its sample and centres it with shift
NextFrame == Fit \/ Shift

SpecFrame == Init /\ [][NextFrame]_vars

(* ------------------------ notions the claims use ---------------------- *)

\* all elements of q are the same value (true of the empty sequence)
AllSame(q) == \A i, j \in 1..Len(q) : q[i] = q[j]

\* the elements of q are pairwise different
Distinct(q) == \A i, j \in 1..Len(q) : i # j => q[i] # q[j]

\* q[1] + ... + q[i], summed from the far end
RECURSIVE Sigma(_, _)
Sigma(q, i) == IF i = 0 THEN Zero ELSE Add(Sigma(q, i - 1), q[i])

\* sum of xs[i] * ys[i] (equal lengths)
SumProducts(xs, ys) == Sigma([i \in 1..Len(xs) |-> Mul(xs[i], ys[i])], Len(xs))

\* the centred sum of products from the raw moments:
\* sum(x*y) - sum(x)*sum(y)/n
RawS(xs, ys) ==
    Sub(SumProducts(xs, ys),
        Div(Mul(Sigma(xs, Len(xs)), Sigma(ys, Len(ys))), Int2T(Len(xs))))

\* the integers a line's intercept and slope are drawn from
Coefs == (0 - MaxVal - 2)..(MaxVal + 2)

\* y[i] = a + b * x[i] for every i
OnLine(a, b) ==
    /\ Len(x) = Len(y)
    /\ \A i \in 1..Len(x) : Eq(y[i], Add(Int2T(a), Mul(Int2T(b), x[i])))

FitReturned == call = "fit" /\ ret.st = "ok"

(* ------------------------------- C1 ----------------------------------- *)

C3_SentinelOrPopulated ==
    FitReturned =>
        \/ ret.v = EmptyFit
        \/ /\ ret.v.n = Len(x)
           /\ ret.v.n >= 3
           /\ Less(Zero, ret.v.sxx)
           /\ Eq(ret.v.sxx, RawS(x, x))
           /\ Eq(ret.v.syy, RawS(y, y))
           /\ Eq(ret.v.sxy, RawS(x, y))
           /\ Eq(Mul(ret.v.beta1, ret.v.sxx), ret.v.sxy)
           /\ Eq(Add(Mul(ret.v.beta0, Int2T(Len(x))),
                     Mul(ret.v.beta1, Sigma(x, Len(x)))),
                 Sigma(y, Len(y)))

\* fit left through the sxx == 0 exit (x constant, y not) with n = 0
C3_Witness ==
    /\ FitReturned
    /\ Len(x) = 3 /\ Len(y) = 3
    /\ AllSame(x) /\ ~AllSame(y)
    /\ ret.v.n = 0 /\ ret.v.sxx = Zero

(* ------------------------------- C4 ----------------------------------- *)

\* C4: on a perfectly linear sample y[i] = a + b*x[i] with b # 0, n >= 3 and
\* distinct x values, fit returns beta1 = b, beta0 = a, sse = 0 and
\* rho = sign(b), with sxy^2 = sxx*syy and sign(sxy) = sign(b).
C4_RecoversLine ==
    FitReturned =>
        \A a, b \in Coefs :
            (b # 0 /\ Len(x) >= 3 /\ Distinct(x) /\ OnLine(a, b)) =>
                /\ ret.v.n = Len(x)
                /\ Eq(ret.v.beta1, Int2T(b))
                /\ Eq(ret.v.beta0, Int2T(a))
                /\ Eq(ret.v.sse, Zero)
                /\ Eq(ret.v.rho, Int2T(Sgn(b)))
                /\ Eq(Mul(ret.v.sxy, ret.v.sxy), Mul(ret.v.sxx, ret.v.syy))
                /\ Sign(ret.v.sxy) = Sgn(b)

\* fit ran on a descending line with a non-zero intercept
C4_Witness ==
    /\ FitReturned
    /\ Len(x) = 3 /\ Distinct(x)
    /\ \E a, b \in Coefs : a # 0 /\ b < 0 /\ OnLine(a, b)
    /\ Eq(ret.v.rho, Int2T(0 - 1))

(* ------------------------------- C5 ----------------------------------- *)

\* C5: for every valid (non-sentinel) result r of fit,
\* coeff_of_determination(r) equals r.rho squared and lies in [0, 1],
\* also when all y values are identical (syy == 0, sxx > 0).
C5_RSquaredInUnitInterval ==
    (call = "coeff_of_determination" /\ fitResult.v # EmptyFit) =>
        /\ ret.st = "ok"
        /\ Eq(ret.v, Mul(fitResult.v.rho, fitResult.v.rho))
        /\ Leq(Zero, ret.v)
        /\ Leq(ret.v, One)
\* fit returned a valid result for a sample whose y values are all identical
ConstantYFit ==
    /\ fitResult.st = "ok"
    /\ fitResult.v # EmptyFit
    /\ Eq(fitResult.v.syy, Zero)

(* ------------------------------- C2 ----------------------------------- *)

\* C2: ci_slope fails (returns no interval) whenever it is invoked with
\* dof = n - 2 <= 0, or with scal = syy/sxx == 0, or with beta1^2 >= scal.
C2_DegenerateFitFails ==
    call = "ci_slope" =>
        LET fr == fitResult.v
            dof == Int2T(SizeSub(fr.n, 2))
            scal == Div(fr.syy, fr.sxx)
        IN  (\/ Leq(dof, Zero)
             \/ Eq(scal, Zero)
             \/ Leq(scal, Mul(fr.beta1, fr.beta1))) => ret.st # "ok"

(* ----------------------------- C6, C7 --------------------------------- *)

Lower(r) == r.v[1]

Upper(r) == r.v[2]

Width(r) == Sub(Upper(r), Lower(r))

ValidFitHeld == fitResult.st = "ok" /\ fitResult.v # EmptyFit

\* the interval of the last ci_slope call against the one for alpha2
WiderAtSmallerAlpha(alpha2) ==
    LET other == ci_slope(fitResult.v, Num(alpha2))
    IN  /\ other.st = "ok"
        /\ Less(Num(arg), Num(alpha2)) => Less(Width(other), Width(ret))
        /\ Less(Num(alpha2), Num(arg)) => Less(Width(ret), Width(other))

C7_CentredOnSlope ==
    (call = "ci_slope" /\ ValidFitHeld) =>
        /\ ret.st = "ok"
        /\ LET fr == fitResult.v
               margin == Div(Width(ret), Int2T(2))
               q == t_quantile(Sub(One, Div(Num(arg), Int2T(2))), Int2T(fr.n - 2)).v
               se2 == Div(Sub(Div(fr.syy, fr.sxx), Mul(fr.beta1, fr.beta1)),
                          Int2T(fr.n - 2))
           IN  /\ Leq(Zero, margin)
               /\ Eq(Mul(Div(margin, q), Div(margin, q)), se2)
               /\ Eq(Lower(ret), Sub(fr.beta1, margin))
               /\ Eq(Upper(ret), Add(fr.beta1, margin))
               /\ Leq(Lower(ret), Upper(ret))

(* ------------------------------- C8 ----------------------------------- *)

\* the arguments of the last inner_product call, in the order passed
First == IF arg = "xy" THEN x ELSE y

Second == IF arg = "xy" THEN y ELSE x

\* C8: mean and shift raise InvalidArgument exactly on empty input, and
\* inner_product exactly when the lengths differ or are below 2; otherwise
\* each returns a value, inner_product the sum of x[i]*y[i].
C8_PrimitivesRejectBadArguments ==
    /\ call \in { "mean", "shift" } =>
          ret.st = (IF Len(x) = 0 THEN "invalid_argument" ELSE "ok")
    /\ call = "inner_product" =>
          IF Len(x) # Len(y) \/ Len(x) < 2
          THEN ret.st = "invalid_argument"
          ELSE ret.st = "ok" /\ Eq(ret.v, SumProducts(First, Second))

\* inner_product was called with two sequences of length 1 and raised
C8_Witness ==
    /\ call = "inner_product"
    /\ Len(x) = 1 /\ Len(y) = 1
    /\ ret.st = "invalid_argument"

(* ------------------------------- C9 ----------------------------------- *)

\* the same call with the two arguments exchanged
Exchanged == inner_product(Second, First)

\* C9 as stated: for x, y of equal non-zero length, length 1 included,
\* inner_product(x, y) and inner_product(y, x) both return a value and the
\* values are equal.
C9_CommutesFromLengthOne ==
    (call = "inner_product" /\ Len(x) = Len(y) /\ Len(x) >= 1) =>
        /\ ret.st = "ok"
        /\ Exchanged.st = "ok"
        /\ Eq(ret.v, Exchanged.v)

\* C9 amended: for x, y of equal length >= 2, inner_product(x, y) and
\* inner_product(y, x) both return a value and the values are equal; for
\* equal length 1 both raise InvalidArgument.
C9_CommutesFromLengthTwo ==
    (call = "inner_product" /\ Len(x) = Len(y)) =>
        /\ Len(x) >= 2 =>
              /\ ret.st = "ok"
              /\ Exchanged.st = "ok"
              /\ Eq(ret.v, Exchanged.v)
        /\ Len(x) = 1 =>
              /\ ret.st = "invalid_argument"
              /\ Exchanged.st = "invalid_argument"

\* inner_product returned a non-zero value for two different sequences
C9_Witness ==
    /\ call = "inner_product" /\ arg = "yx"
    /\ Len(x) = 2 /\ Len(y) = 2 /\ x # y
    /\ ret.st = "ok" /\ Less(Zero, ret.v)

(* ------------------------------- C10 ---------------------------------- *)

\* C10: for x of length >= 1, shift(x) returns a sequence of the same length
\* whose i-th element is x[i] - mean(x), and the mean of that sequence is 0.
C10_ShiftCentres ==
    (call = "shift" /\ Len(x) >= 1) =>
        /\ ret.st = "ok"
        /\ Len(ret.v) = Len(x)
        /\ \A i \in 1..Len(x) :
              Eq(Mul(ret.v[i], Int2T(Len(x))),
                 Sub(Mul(x[i], Int2T(Len(x))), Sigma(x, Len(x))))
        /\ mean(ret.v).st = "ok"
        /\ Eq(mean(ret.v).v, Zero)

\* shift ran on three values that are not all the same
C10_Witness ==
    /\ call = "shift"
    /\ Len(x) = 3 /\ ~AllSame(x)
    /\ ret.st = "ok"
    /\ \E i \in 1..3 : Less(ret.v[i], Zero)

(* ------------------------------- C11 ---------------------------------- *)

Near(u, c) ==
    /\ Leq(Sub(c, Num(Rat(1, 10))), u)
    /\ Leq(u, Add(c, Num(Rat(1, 10))))

ScenarioFitted == FitReturned /\ x = ScenarioX /\ y = ScenarioY

\* C12: for x = 1..10 and y = 3.1, 5.0, 7.2, 9.1, 10.0, 13.2, 15.5, 16.5,
\* 19.0, 21.3, fit returns a valid result with n = 10, beta1 within 0.1 of
\* 2.0 and beta0 within 0.1 of 1.0.
C12_ScenarioSlopeAndIntercept ==
    (call = "fit" /\ x = ScenarioX /\ y = ScenarioY) =>
        /\ ret.st = "ok"
        /\ ret.v # EmptyFit
        /\ ret.v.n = 10
        /\ Near(ret.v.beta1, Int2T(2))
        /\ Near(ret.v.beta0, One)

\* fit ran on the whole sample: the slope is 3307/1650, a little above 2,
\* and the intercept 29/30, a little below 1
C12_Witness ==
    /\ ScenarioFitted
    /\ ret.v.n = 10
    /\ Eq(ret.v.beta1, Num(Rat(3307, 1650)))
    /\ Eq(ret.v.beta0, Num(Rat(29, 30)))

(* ------------------------------- C13 ---------------------------------- *)

\* the primitive calls fit makes once the sizes are accepted all return
PrimitivesAccept ==
    LET x0 == shift(x)
        y0 == shift(y)
    IN  /\ x0.st = "ok" /\ Len(x0.v) = Len(x)
        /\ y0.st = "ok" /\ Len(y0.v) = Len(y)
        /\ inner_product(x0.v, x0.v).st = "ok"
        /\ IF Eq(inner_product(x0.v, x0.v).v, Zero)
           THEN ret.v = EmptyFit
           ELSE /\ inner_product(y0.v, y0.v).st = "ok"
                /\ inner_product(x0.v, y0.v).st = "ok"
                /\ mean(y).st = "ok"
                /\ mean(x).st = "ok"
                /\ ret.v.n = Len(x)

\* C13: fit never raises InvalidArgument, whatever the two sequences: when
\* len(x) # len(y) or len(x) < 3 it returns the sentinel without calling a
\* primitive (also where shift, inner_product or mean would raise), when
\* sxx == 0 it returns the sentinel before syy, sxy, beta1 and rho are
\* computed, and every primitive call it makes meets the primitive's
\* precondition (non-empty; equal lengths >= 2).
C13_FitNeverRaises ==
    call = "fit" =>
        /\ ret.st = "ok"
        /\ IF Len(x) # Len(y) \/ Len(x) < 3
           THEN ret.v = EmptyFit
           ELSE PrimitivesAccept

\* fit returned the sentinel for sequences of lengths 2 and 3, on which
\* inner_product(x0, y0) would have raised
C13_Witness ==
    /\ call = "fit"
    /\ Len(x) = 2 /\ Len(y) = 3 /\ ~AllSame(x)
    /\ inner_product(shift(x).v, shift(y).v).st = "invalid_argument"
    /\ ret = Ok(EmptyFit)

(* ------------------------------- C14 ---------------------------------- *)

\* C14: ci_slope computes the degrees of freedom as n - 2 in unsigned
\* size_t arithmetic before the conversion to T: for n >= 3 dof = n - 2 >= 1
\* without wrap-around; for n < 2, the n = 0 sentinel included, the
\* subtraction wraps modulo 2^w to a large positive dof; a negative dof is
\* never observed, and dof <= 0 (on which t_quantile fails) occurs only for
\* n = 2.
C14_DofUnsigned ==
    call = "ci_slope" =>
        LET n == fitResult.v.n
            dof == ci_dof(fitResult.v)
        IN  /\ n >= 3 => Eq(dof, Int2T(n - 2)) /\ Leq(One, dof)
            /\ n < 2 =>
                  /\ Eq(dof, Int2T(2 ^ SizeBits + n - 2))
                  /\ Less(Int2T(2 ^ (SizeBits - 1)), dof)
            /\ ~Less(dof, Zero)
            /\ Leq(dof, Zero) <=> n = 2
            /\ ret.st = (IF n = 2 THEN "domain_error" ELSE "ok")

\* ci_slope returned an interval for a hand-built result with n = 1: the
\* degrees of freedom wrapped to 2^w - 1
C14_Witness ==
    /\ call = "ci_slope"
    /\ fitResult.v.n = 1
    /\ Eq(ci_dof(fitResult.v), Int2T(2 ^ SizeBits - 1))
    /\ ret.st = "ok"
    /\ Less(Lower(ret), Upper(ret))

(* ------------------------------- C15 ---------------------------------- *)

\* the points (xs[i], ys[i]) lie on one line: seen from the first point,
\* any two of the others lie in the same direction
Collinear(xs, ys) ==
    \A j, k \in 2..Len(xs) :
        j < k =>
            Eq(Mul(Sub(xs[j], xs[1]), Sub(ys[k], ys[1])),
               Mul(Sub(xs[k], xs[1]), Sub(ys[j], ys[1])))

\* the radicand ci_slope computes for the result of fit the caller holds
Radicand ==
    ci_radicand(fitResult.v.beta1,
                Div(fitResult.v.syy, fitResult.v.sxx),
                ci_dof(fitResult.v))

\* C15: for every valid fit result sse = syy - sxy^2/sxx and
\* 0 <= sse <= syy; and when syy > 0 the radicand of ci_slope,
\* scal*(1 - beta1^2/scal)/dof with scal = syy/sxx, equals
\* sse/(sxx*(n - 2)), is non-negative, and is 0 exactly when the data are
\* perfectly linear.
C15_ResidualIdentity ==
    ValidFitHeld =>
        LET r == fitResult.v
            explained == Div(Mul(r.sxy, r.sxy), r.sxx)
            radicand == Radicand
        IN  /\ Eq(r.sse, Sub(r.syy, explained))
            /\ Leq(Zero, r.sse)
            /\ Leq(r.sse, r.syy)
            /\ Less(Zero, r.syy) =>
                  /\ Eq(radicand, Div(r.sse, Mul(r.sxx, Int2T(r.n - 2))))
                  /\ Leq(Zero, radicand)
                  /\ Eq(radicand, Zero) <=> Collinear(x, y)

\* ci_slope returned a proper interval for a fit whose residual error lies
\* strictly between 0 and syy, on a sample with a non-zero intercept
C15_Witness ==
    /\ call = "ci_slope" /\ ValidFitHeld
    /\ Less(Zero, fitResult.v.sse)
    /\ Less(fitResult.v.sse, fitResult.v.syy)
    /\ ~Eq(fitResult.v.beta0, Zero)
    /\ Less(Zero, Radicand)
    /\ ret.st = "ok" /\ Less(Lower(ret), Upper(ret))

====
